---- MODULE Spec2Model ----
(***************************************************************************)
(* Productivity grade calendar (src/script.js).                            *)
(*                                                                         *)
(* State: the viewed date (currentDate), localStorage (store), the         *)
(* rendered table body (calendarBody) and the heading (monthYearText).     *)
(* Operations: DOMContentLoaded, the previous/next button click handlers,  *)
(* the change handler of a day's <select>, and a page reload.              *)
(*                                                                         *)
(* Strings that the claims look into (dateStr) are sequences of            *)
(* one-character strings; Date follows ECMAScript's day arithmetic         *)
(* (MakeDay, the 0..99 year rule of the Date constructor, the range of     *)
(* time values outside which a Date is an Invalid Date).                   *)
(***************************************************************************)
EXTENDS Integers, Sequences, FiniteSets, TLC

VARIABLES
    currentDate,   \* let currentDate: its local [year, month, date]
    today,         \* the date new Date() yields when the script runs
    store,         \* localStorage: dateStr -> value
    calendarBody,  \* rendered rows, each a sequence of 7 cells
    monthYearText, \* heading text
    loaded,        \* DOMContentLoaded has fired for this page
    events,        \* number of user events handled so far
    log            \* the events handled so far, oldest first (history)

vars == <<currentDate, today, store, calendarBody, monthYearText, loaded, events, log>>

-----------------------------------------------------------------------------
(* Bounds *)

\* user events (clicks, grade changes, reloads) in one behaviour
MaxEvents == 3

-----------------------------------------------------------------------------
(* ECMAScript Date: day arithmetic on the proleptic Gregorian calendar *)

\* Day number (days since 1970-01-01) of year y, month m (0-based), day d.
DaysFromCivil(y, m, d) ==
    LET yy  == IF m <= 1 THEN y - 1 ELSE y
        era == yy \div 400
        yoe == yy - era * 400
        mp  == (m + 10) % 12
        doy == (153 * mp + 2) \div 5 + d - 1
        doe == yoe * 365 + yoe \div 4 - yoe \div 100 + doy
    IN  era * 146097 + doe - 719468

\* [year, month, date] of a day number.
CivilFromDays(z) ==
    LET zz  == z + 719468
        era == zz \div 146097
        doe == zz - era * 146097
        yoe == (doe - doe \div 1460 + doe \div 36524 - doe \div 146096) \div 365
        doy == doe - (365 * yoe + yoe \div 4 - yoe \div 100)
        mp  == (5 * doy + 2) \div 153
        d   == doy - (153 * mp + 2) \div 5 + 1
        m   == IF mp < 10 THEN mp + 2 ELSE mp - 10
        y   == yoe + era * 400 + (IF m <= 1 THEN 1 ELSE 0)
    IN  [year |-> y, month |-> m, date |-> d]

\* NaN, the number an Invalid Date yields: a value outside every number the
\* model computes otherwise
NaN == -999999999

\* a + b in JavaScript numbers of the model
Add(a, b) == IF a = NaN \/ b = NaN THEN NaN ELSE a + b

\* the largest day number of a Date: time values reach 8.64e15 ms = 1e8 days
\* (UTC) on either side of 1970-01-01
MaxDay == 100000000

InvalidDate == [year |-> NaN, month |-> NaN, date |-> NaN]

\* ECMAScript TimeClip: the Date of a day number, Invalid Date out of range
DateOfDay(day) ==
    IF day >= -MaxDay /\ day < MaxDay THEN CivilFromDays(day) ELSE InvalidDate

\* ECMAScript MakeDay(year, month, date): month and date may be out of range.
MakeDay(year, month, date) ==
    DaysFromCivil(year + month \div 12, month % 12, 1) + date - 1

\* ECMAScript WeekDay: 0 = Sunday; 1970-01-01 was a Thursday.
WeekDay(day) == (day + 4) % 7

\* new Date(year, month, date): a year in 0..99 means 1900 + year.
NewDate(year, month, date) ==
    IF year = NaN \/ month = NaN THEN InvalidDate
    ELSE LET yr == IF year >= 0 /\ year <= 99 THEN 1900 + year ELSE year
         IN  DateOfDay(MakeDay(yr, month, date))

getDay(dt) ==
    IF dt = InvalidDate THEN NaN
    ELSE WeekDay(DaysFromCivil(dt.year, dt.month, dt.date))
getDate(dt) == dt.date
getMonth(dt) == dt.month
getFullYear(dt) == dt.year

\* Date.prototype.setMonth(month): same year and day-of-month, renormalised.
setMonth(dt, month) ==
    IF dt = InvalidDate \/ month = NaN THEN InvalidDate
    ELSE DateOfDay(MakeDay(dt.year, month, dt.date))

-----------------------------------------------------------------------------
(* Strings *)

Digit == <<"0", "1", "2", "3", "4", "5", "6", "7", "8", "9">>

RECURSIVE NatToString(_)
NatToString(n) ==
    IF n < 10 THEN <<Digit[n + 1]>>
    ELSE NatToString(n \div 10) \o <<Digit[(n % 10) + 1]>>

\* Number.prototype.toString() of an integer or NaN.
NumToString(n) ==
    IF n = NaN THEN <<"N", "a", "N">>
    ELSE IF n < 0 THEN <<"-">> \o NatToString(-n) ELSE NatToString(n)

RECURSIVE padStart(_, _, _)
padStart(s, len, fill) ==
    IF Len(s) >= len THEN s ELSE padStart(<<fill>> \o s, len, fill)

pad(num) == padStart(NumToString(num), 2, "0")

\* a dateStr that leaves the month out
DateStr_NoMonth(year, month, day) ==
    NumToString(year) \o <<"-">> \o pad(day)

\* `${year}-${pad(month + 1)}-${pad(day)}`
DateStr(year, month, day) ==
    NumToString(year) \o <<"-">> \o pad(month + 1) \o <<"-">> \o pad(day)

monthNames ==
    << "January", "February", "March", "April", "May", "June",
       "July", "August", "September", "October", "November", "December" >>

grades == <<"S", "A", "B", "C", "D", "F">>

Grades == {grades[i] : i \in 1..Len(grades)}

\* the values of the <option>s of a day's <select>
OptionValues == {""} \cup Grades

UpperToLower ==
    [c \in {"S", "A", "B", "C", "D", "F", "X"} |->
        CASE c = "S" -> "s" [] c = "A" -> "a" [] c = "B" -> "b"
          [] c = "C" -> "c" [] c = "D" -> "d" [] c = "F" -> "f"
          [] c = "X" -> "x"]

\* String.prototype.toLowerCase on the one-character values of the model
toLowerCase(s) == IF s \in DOMAIN UpperToLower THEN UpperToLower[s] ELSE s

-----------------------------------------------------------------------------
(* Cell classes *)

GradeClassNames == {"grade-s", "grade-a", "grade-b", "grade-c", "grade-d", "grade-f"}

\* applyGradeClass(cell, grade): the class list after classList.add
applyGradeClass(classes, grade) == classes \cup {"grade-" \o toLowerCase(grade)}

\* removeGradeClasses(cell): the class list after classList.remove
removeGradeClasses(classes) == classes \ GradeClassNames

-----------------------------------------------------------------------------
(* localStorage *)

\* getItem: {} stands for null, {v} for the stored string v
getItem(st, key) == IF key \in DOMAIN st THEN {st[key]} ELSE {}

\* JavaScript truthiness of a getItem result / of a string
TruthyItem(r) == r # {} /\ r # {""}

setItem(st, key, value) ==
    [k \in DOMAIN st \cup {key} |-> IF k = key THEN value ELSE st[k]]

removeItem(st, key) == [k \in DOMAIN st \ {key} |-> st[k]]

-----------------------------------------------------------------------------
(* buildCalendar *)

EmptyCell == [day |-> 0, dateStr |-> <<>>, value |-> "", classes |-> {}]

\* HTMLSelectElement.value setter: selects the option with that value, if any
SelectValue(v) == IF v \in OptionValues THEN v ELSE ""

\* buildCalendar that forgets `selectEl.value = savedGrade`
DayCell_NoSelectValue(year, month, day, st) ==
    LET dateStr    == DateStr(year, month, day)
        savedGrade == getItem(st, dateStr)
    IN  IF TruthyItem(savedGrade)
        THEN [day |-> day, dateStr |-> dateStr, value |-> "",
              classes |-> applyGradeClass({}, st[dateStr])]
        ELSE [day |-> day, dateStr |-> dateStr, value |-> "", classes |-> {}]

\* an in-month <td>: day number, <select> and the saved grade loaded into it
DayCell(year, month, day, st) ==
    LET dateStr    == DateStr(year, month, day)
        savedGrade == getItem(st, dateStr)
    IN  IF TruthyItem(savedGrade)
        THEN [day |-> day, dateStr |-> dateStr,
              value |-> SelectValue(st[dateStr]),
              classes |-> applyGradeClass({}, st[dateStr])]
        ELSE [day |-> day, dateStr |-> dateStr, value |-> "", classes |-> {}]

FirstDay(month, year) == getDay(NewDate(year, month, 1))

DaysInMonth(month, year) == getDate(NewDate(year, Add(month, 1), 0))

\* Math.ceil(totalCells / 7)
RowCount(month, year) ==
    LET totalCells == Add(FirstDay(month, year), DaysInMonth(month, year))
    IN  IF totalCells = NaN THEN NaN ELSE (totalCells + 6) \div 7

\* the rows the loop `row < rowCount` runs through: none when rowCount is NaN
RowsRendered(rowCount) == IF rowCount = NaN THEN 0 ELSE rowCount

\* the cells from cellIndex on, in row-major order, with the running dayCounter
RECURSIVE Cells(_, _, _, _, _, _, _, _)
Cells(cellIndex, dayCounter, firstDay, daysInMonth, rowCount, month, year, st) ==
    IF cellIndex >= RowsRendered(rowCount) * 7 THEN <<>>
    ELSE IF cellIndex >= firstDay /\ dayCounter <= daysInMonth
         THEN <<DayCell(year, month, dayCounter, st)>>
                 \o Cells(cellIndex + 1, dayCounter + 1,
                          firstDay, daysInMonth, rowCount, month, year, st)
         ELSE <<EmptyCell>>
                 \o Cells(cellIndex + 1, dayCounter,
                          firstDay, daysInMonth, rowCount, month, year, st)

\* the rows buildCalendar(month, year) appends: each 7 cells
BuildCalendar(month, year, st) ==
    LET firstDay    == FirstDay(month, year)
        daysInMonth == DaysInMonth(month, year)
        rowCount    == RowCount(month, year)
        cells       == Cells(0, 1, firstDay, daysInMonth, rowCount, month, year, st)
    IN  [row \in 1..RowsRendered(rowCount) |->
            [col \in 1..7 |-> cells[(row - 1) * 7 + col]]]

\* a buildCalendar that does not empty the table body
ClearBody_Keep(body) == body

\* `calendarBody.innerHTML = ''`
ClearBody(body) == <<>>

\* calendarBody after buildCalendar(month, year) ran on the table body `body`
Rebuild(body, month, year, st) == ClearBody(body) \o BuildCalendar(month, year, st)

\* monthYearText.textContent after buildCalendar(month, year)
Heading(month, year) ==
    << IF month = NaN THEN "undefined" ELSE monthNames[month + 1],
       " ", NumToString(year) >>

-----------------------------------------------------------------------------
(* Initial states *)

D(y, m, d) == [year |-> y, month |-> m, date |-> d]

\* the date new Date() yields when the script runs (the user's clock); the early
\* and late ones are also the views that navigation reaches from any start
LoadDates ==
    { D(2024, 0, 31), D(2024, 2, 31), D(2026, 1, 10),
      D(100, 0, 15), D(0, 2, 15), D(9999, 11, 15), D(275760, 7, 10) }

K(y, m, d) == DateStr(y, m, d)

\* grades saved by earlier sessions, for days around the 2024 load dates
SavedGrades ==
    (K(2024, 1, 1) :> "B") @@ (K(2024, 1, 2) :> "F")
        @@ (K(2024, 2, 31) :> "C") @@ (K(2023, 11, 1) :> "D")

\* localStorage contents when the script starts on date dt
InitStores(dt) == {<<>>} \cup (IF getFullYear(dt) = 2024 THEN {SavedGrades} ELSE {})

Init ==
    /\ today \in LoadDates
    /\ currentDate = today
    /\ store \in InitStores(today)
    /\ calendarBody = <<>>
    /\ monthYearText = <<>>
    /\ loaded = FALSE
    /\ events = 0
    /\ log = <<>>

-----------------------------------------------------------------------------
(* Operations *)

View(dt) == <<getMonth(dt), getFullYear(dt)>>

\* history: the event is appended to the log
Logged(entry) == Append(log, entry)

\* DOMContentLoaded listener
PageLoad ==
    /\ ~loaded
    /\ calendarBody' = Rebuild(calendarBody, getMonth(currentDate),
                                getFullYear(currentDate), store)
    /\ monthYearText' = Heading(getMonth(currentDate), getFullYear(currentDate))
    /\ loaded' = TRUE
    /\ log' = Logged([ev |-> "load", from |-> View(currentDate), to |-> View(currentDate),
                      key |-> <<>>, day |-> 0, value |-> ""])
    /\ UNCHANGED <<currentDate, today, store, events>>

\* prevMonthBtn click listener
PrevMonth ==
    /\ loaded
    /\ events < MaxEvents
    /\ currentDate' = setMonth(currentDate, Add(getMonth(currentDate), -1))
    /\ calendarBody' = Rebuild(calendarBody, getMonth(currentDate'),
                                getFullYear(currentDate'), store)
    /\ monthYearText' = Heading(getMonth(currentDate'), getFullYear(currentDate'))
    /\ log' = Logged([ev |-> "prev", from |-> View(currentDate), to |-> View(currentDate'),
                      key |-> <<>>, day |-> 0, value |-> ""])
    /\ events' = events + 1
    /\ UNCHANGED <<today, store, loaded>>

\* nextMonthBtn click listener
NextMonth ==
    /\ loaded
    /\ events < MaxEvents
    /\ currentDate' = setMonth(currentDate, Add(getMonth(currentDate), 1))
    /\ calendarBody' = Rebuild(calendarBody, getMonth(currentDate'),
                                getFullYear(currentDate'), store)
    /\ monthYearText' = Heading(getMonth(currentDate'), getFullYear(currentDate'))
    /\ log' = Logged([ev |-> "next", from |-> View(currentDate), to |-> View(currentDate'),
                      key |-> <<>>, day |-> 0, value |-> ""])
    /\ events' = events + 1
    /\ UNCHANGED <<today, store, loaded>>

\* days of the month whose <select> the user operates
ChangeDays == {1, 31}

\* options the user picks
ChangeValues == {"", "S", "A"}

\* a change listener without the removeGradeClasses call
ChangeClasses_NoRemove(classes, selectedGrade) ==
    IF selectedGrade # "" THEN applyGradeClass(classes, selectedGrade) ELSE classes

\* the change listener's effect on the cell's class list
ChangeClasses(classes, selectedGrade) ==
    IF selectedGrade # ""
    THEN applyGradeClass(removeGradeClasses(classes), selectedGrade)
    ELSE removeGradeClasses(classes)

\* a change listener without the removeItem branch
ChangeStore_NoRemove(st, dateStr, selectedGrade) ==
    IF selectedGrade # "" THEN setItem(st, dateStr, selectedGrade) ELSE st

\* a change listener without the setItem call
ChangeStore_NoSet(st, dateStr, selectedGrade) ==
    IF selectedGrade # "" THEN st ELSE removeItem(st, dateStr)

\* a change listener that saves whatever was selected, the blank option included
ChangeStore_SaveBlank(st, dateStr, selectedGrade) ==
    setItem(st, dateStr, selectedGrade)

\* a change listener that rewrites the whole store
ChangeStore_OnlyKey(st, dateStr, selectedGrade) ==
    IF selectedGrade # "" THEN setItem(<<>>, dateStr, selectedGrade) ELSE <<>>

\* the change listener's effect on localStorage
ChangeStore(st, dateStr, selectedGrade) ==
    IF selectedGrade # ""
    THEN setItem(st, dateStr, selectedGrade)
    ELSE removeItem(st, dateStr)

\* the change listener of the <select> of cell (row, col) runs with
\* e.target.value = selectedGrade
ChangeEvent(row, col, selectedGrade) ==
    LET td == calendarBody[row][col]
    IN  /\ calendarBody' =
              [calendarBody EXCEPT ![row][col] =
                  [td EXCEPT !.value = selectedGrade,
                             !.classes = ChangeClasses(@, selectedGrade)]]
        /\ store' = ChangeStore(store, td.dateStr, selectedGrade)
        /\ log' = Logged([ev |-> "change", from |-> View(currentDate),
                          to |-> View(currentDate),
                          key |-> td.dateStr, day |-> td.day, value |-> selectedGrade])

\* the user picks another option in the <select> of a day; the browser sets
\* the <select>'s value and runs the change listener
GradeChange ==
    /\ loaded
    /\ events < MaxEvents
    /\ \E row \in DOMAIN calendarBody, col \in 1..7, selectedGrade \in ChangeValues :
          /\ calendarBody[row][col].day \in ChangeDays
          /\ selectedGrade # calendarBody[row][col].value
          /\ ChangeEvent(row, col, selectedGrade)
    /\ events' = events + 1
    /\ UNCHANGED <<currentDate, today, monthYearText, loaded>>

\* the user reloads the page: the script runs again, localStorage persists
Reload ==
    /\ loaded
    /\ events < MaxEvents
    /\ currentDate' = today
    /\ calendarBody' = <<>>
    /\ monthYearText' = <<>>
    /\ loaded' = FALSE
    /\ events' = events + 1
    /\ log' = Logged([ev |-> "reload", from |-> View(currentDate), to |-> View(today),
                      key |-> <<>>, day |-> 0, value |-> ""])
    /\ UNCHANGED <<today, store>>

Next == PageLoad \/ PrevMonth \/ NextMonth \/ GradeChange \/ Reload

Spec == Init /\ [][Next]_vars

-----------------------------------------------------------------------------
(* Values from outside the six grades *)

\* a value that is not one of the six grades
ForeignValues == {"X"}

\* dates on which the foreign values are tried
ForeignLoadDates == {D(2024, 2, 31), D(2026, 1, 10)}

\* localStorage with entries written by another version or another feature
ForeignGrades == (K(2024, 2, 1) :> "X") @@ (K(2026, 1, 1) :> "X")

InitForeignStore ==
    /\ today \in ForeignLoadDates
    /\ currentDate = today
    /\ store = ForeignGrades
    /\ calendarBody = <<>>
    /\ monthYearText = <<>>
    /\ loaded = FALSE
    /\ events = 0
    /\ log = <<>>

\* the program started on a store that holds foreign values
SpecForeignStore == InitForeignStore /\ [][Next]_vars

\* the change listener runs with an e.target.value that is none of the seven
\* option values (the <select> was given another option from outside)
ForeignChange ==
    /\ loaded
    /\ events < MaxEvents
    /\ \E row \in DOMAIN calendarBody, col \in 1..7, selectedGrade \in ForeignValues :
          /\ calendarBody[row][col].day \in ChangeDays
          /\ selectedGrade # calendarBody[row][col].value
          /\ ChangeEvent(row, col, selectedGrade)
    /\ events' = events + 1
    /\ UNCHANGED <<currentDate, today, monthYearText, loaded>>

InitForeignInput ==
    /\ today \in ForeignLoadDates
    /\ currentDate = today
    /\ store \in InitStores(today)
    /\ calendarBody = <<>>
    /\ monthYearText = <<>>
    /\ loaded = FALSE
    /\ events = 0
    /\ log = <<>>

NextForeignInput == Next \/ ForeignChange

\* the program with change events that carry foreign values
SpecForeignInput == InitForeignInput /\ [][NextForeignInput]_vars

-----------------------------------------------------------------------------
(* Vocabulary of the properties *)

viewMonth == getMonth(currentDate)
viewYear == getFullYear(currentDate)

LastEvent == log[Len(log)]

\* currentDate is a Date with a month and a year
ValidView == currentDate # InvalidDate

\* the month after / before a view <<month, year>>
FollowingMonth(v) == IF v[1] < 11 THEN <<v[1] + 1, v[2]>> ELSE <<0, v[2] + 1>>
PrecedingMonth(v) == IF v[1] > 0 THEN <<v[1] - 1, v[2]>> ELSE <<11, v[2] - 1>>

\* the rendered cells in row-major order, 0-based like cellIndex
CellCount == Len(calendarBody) * 7
CellAt(i) == calendarBody[(i \div 7) + 1][(i % 7) + 1]
InMonth == {i \in 0..(CellCount - 1) : CellAt(i).day # 0}

\* proleptic Gregorian calendar
IsLeapYear(y) == y % 4 = 0 /\ (y % 100 # 0 \/ y % 400 = 0)
GregorianDays(month, year) ==
    IF month = 1 THEN (IF IsLeapYear(year) THEN 29 ELSE 28)
    ELSE IF month \in {3, 5, 8, 10} THEN 30 ELSE 31
GregorianWeekday(month, year) == WeekDay(DaysFromCivil(year, month, 1))

-----------------------------------------------------------------------------
(* Navigation *)

\* C1: a next-month click moves the view to exactly the following month,
\* whatever the day of the month kept in currentDate.
C1_NextIsFollowingMonth ==
    \A i \in DOMAIN log : log[i].ev = "next" => log[i].to = FollowingMonth(log[i].from)

\* C2: a previous-month click moves the view to exactly the preceding month,
\* whatever the day of the month kept in currentDate.
C2_PrevIsPrecedingMonth ==
    \A i \in DOMAIN log : log[i].ev = "prev" => log[i].to = PrecedingMonth(log[i].from)

\* C3: previous then next, and next then previous, return the view to the
\* (month, year) they started from.
C3_PrevNextInverse ==
    \A i \in DOMAIN log :
        (/\ i + 1 \in DOMAIN log
         /\ <<log[i].ev, log[i + 1].ev>> \in {<<"prev", "next">>, <<"next", "prev">>})
        => log[i + 1].to = log[i].from

-----------------------------------------------------------------------------
(* Layout *)

\* C4: every day 1..daysInMonth of the viewed month is in exactly one cell, in
\* increasing order from 1, the first one in the column of the weekday of day 1
\* of that month and year; the cells before it and after the last day are empty.
C4_Layout ==
    (loaded /\ ValidView) =>
        LET w == GregorianWeekday(viewMonth, viewYear)
            n == GregorianDays(viewMonth, viewYear)
        IN  /\ CellCount >= w + n
            /\ \A i \in 0..(CellCount - 1) :
                  CellAt(i).day = IF i >= w /\ i < w + n THEN i - w + 1 ELSE 0

\* C5: the number of rows is ceil((firstWeekdayOffset + daysInMonth) / 7), the
\* least number of rows that holds every day of the month, and is within 4..6.
C5_RowCount ==
    (loaded /\ ValidView) =>
        LET w == GregorianWeekday(viewMonth, viewYear)
            n == GregorianDays(viewMonth, viewYear)
        IN  /\ Len(calendarBody) = (w + n + 6) \div 7
            /\ Len(calendarBody) \in 4..6
            /\ \A d \in 1..n : \E i \in InMonth : CellAt(i).day = d
            /\ \E i \in InMonth : i \div 7 = Len(calendarBody) - 1

-----------------------------------------------------------------------------
(* Grades: the store and what is rendered *)

\* the classification that shows grade g
ExpectedClass(g) ==
    CASE g = "S" -> "grade-s" [] g = "A" -> "grade-a" [] g = "B" -> "grade-b"
      [] g = "C" -> "grade-c" [] g = "D" -> "grade-d" [] g = "F" -> "grade-f"

\* the grade-change events on dateStr k, and the user's last choice for it
ChangesOf(k) == {i \in DOMAIN log : log[i].ev = "change" /\ log[i].key = k}
HasChoice(k) == ChangesOf(k) # {}
LastChoice(k) ==
    log[CHOOSE i \in ChangesOf(k) : \A j \in ChangesOf(k) : j <= i].value

IsRebuild(e) == e.ev \in {"load", "prev", "next"}

\* C6: every rendered in-month cell agrees with the store at its dateStr: class
\* grade-<g> and dropdown g when the store maps it to g, no class and a blank
\* dropdown when the store has no entry for it.
C6_RenderStoreAgreement ==
    loaded =>
        \A i \in InMonth :
            LET td == CellAt(i)
            IN  IF td.dateStr \in DOMAIN store
                THEN /\ store[td.dateStr] \in Grades
                     /\ td.classes = {ExpectedClass(store[td.dateStr])}
                     /\ td.value = store[td.dateStr]
                ELSE td.classes = {} /\ td.value = ""

\* a grade was chosen, the grid was rebuilt later, and the day is in view, graded
C6_Witness ==
    /\ loaded
    /\ \E j \in DOMAIN log :
          /\ log[j].ev = "change" /\ log[j].value # ""
          /\ j < Len(log) /\ IsRebuild(LastEvent)
          /\ \E i \in InMonth :
                CellAt(i).dateStr = log[j].key /\ CellAt(i).classes # {}

\* C7: once the grid is rebuilt, a day whose last grade-change event selected g
\* is classified grade-<g>; one whose last grade-change event selected the
\* blank option is absent from the store and has no classification.
C7_RoundTrip ==
    (loaded /\ IsRebuild(LastEvent)) =>
        \A i \in InMonth :
            LET td == CellAt(i)
            IN  HasChoice(td.dateStr) =>
                  IF LastChoice(td.dateStr) # ""
                  THEN td.classes = {ExpectedClass(LastChoice(td.dateStr))}
                  ELSE td.dateStr \notin DOMAIN store /\ td.classes = {}

\* a grade was chosen for a day, then the blank option, then the month was rebuilt
C7_Witness ==
    /\ loaded /\ IsRebuild(LastEvent)
    /\ \E i \in InMonth :
          LET k == CellAt(i).dateStr
          IN  /\ HasChoice(k) /\ LastChoice(k) = ""
              /\ \E j \in ChangesOf(k) : log[j].value # ""

\* C8: in every state the store holds the user's last choice for each day, and
\* a rendered cell shows exactly what a fresh rebuild from the store would show
\* for it: never a new classification over a previous stored value.
C8_StoreBeforeClass ==
    /\ \A j \in DOMAIN log :
          (log[j].ev = "change" /\ log[j].value = LastChoice(log[j].key)
             /\ \A l \in ChangesOf(log[j].key) : l <= j)
          => getItem(store, log[j].key)
                = (IF log[j].value = "" THEN {} ELSE {log[j].value})
    /\ loaded =>
          \A i \in InMonth :
              /\ CellAt(i).classes
                    = DayCell(viewYear, viewMonth, CellAt(i).day, store).classes
              /\ HasChoice(CellAt(i).dateStr) =>
                    CellAt(i).value = LastChoice(CellAt(i).dateStr)

\* the user has just replaced one grade of a day with another
C8_Witness ==
    /\ loaded /\ Len(log) >= 3
    /\ LastEvent.ev = "change" /\ log[Len(log) - 1].ev = "change"
    /\ LastEvent.key = log[Len(log) - 1].key
    /\ LastEvent.value # "" /\ log[Len(log) - 1].value # ""

\* C9: every key of the store maps to one of S, A, B, C, D, F; selecting the
\* blank option removes the key, and no key is stored with an empty value.
C9_StoreValues ==
    /\ \A k \in DOMAIN store : store[k] \in Grades
    /\ (Len(log) > 0 /\ LastEvent.ev = "change" /\ LastEvent.value = "")
          => LastEvent.key \notin DOMAIN store

\* the blank option has just been selected for a day that had a grade
C9_Witness ==
    /\ Len(log) >= 2
    /\ LastEvent.ev = "change" /\ LastEvent.value = ""
    /\ \/ \E j \in ChangesOf(LastEvent.key) : log[j].value # ""
       \/ LastEvent.key = K(2024, 2, 31)

DigitChars == {Digit[i] : i \in 1..10}
TwoDigits(n) == <<Digit[(n \div 10) + 1], Digit[(n % 10) + 1]>>

\* dateStr k is YYYY-MM-DD for month (0-based) and day
WellFormedKey(k, month, day) ==
    /\ Len(k) = 10
    /\ \A p \in 1..4 : k[p] \in DigitChars
    /\ k[5] = "-" /\ k[8] = "-"
    /\ <<k[6], k[7]>> = TwoDigits(month + 1)
    /\ <<k[9], k[10]>> = TwoDigits(day)

\* C10: for every view reached by navigation and every day of it, the dateStr
\* has the form YYYY-MM-DD: a 4-digit year, the 2-digit month 01..12 equal to
\* month + 1, and the 2-digit day 01..31.
C10_DateKeyFormat ==
    loaded =>
        \A i \in InMonth :
            /\ viewMonth + 1 \in 1..12
            /\ CellAt(i).day \in 1..31
            /\ WellFormedKey(CellAt(i).dateStr, viewMonth, CellAt(i).day)

-----------------------------------------------------------------------------
(* Identity of a day *)

DigitValue(c) ==
    CASE c = "0" -> 0 [] c = "1" -> 1 [] c = "2" -> 2 [] c = "3" -> 3
      [] c = "4" -> 4 [] c = "5" -> 5 [] c = "6" -> 6 [] c = "7" -> 7
      [] c = "8" -> 8 [] c = "9" -> 9

IsDigits(str) == Len(str) > 0 /\ \A p \in 1..Len(str) : str[p] \in DigitChars

RECURSIVE ParseNat(_)
ParseNat(str) ==
    IF Len(str) = 1 THEN DigitValue(str[1])
    ELSE 10 * ParseNat(SubSeq(str, 1, Len(str) - 1)) + DigitValue(str[Len(str)])

IsInt(str) == IsDigits(str) \/ (Len(str) > 1 /\ str[1] = "-" /\ IsDigits(Tail(str)))

ParseInt(str) == IF str[1] = "-" THEN 0 - ParseNat(Tail(str)) ELSE ParseNat(str)

\* the day <<year, month, day>> (month 0-based) that a dateStr names: its last
\* six characters are -MM-DD, what precedes them is the year; <<>> when the
\* string has no such reading
ParseKey(k) ==
    IF /\ Len(k) >= 7
       /\ k[Len(k) - 5] = "-" /\ k[Len(k) - 2] = "-"
       /\ IsInt(SubSeq(k, 1, Len(k) - 6))
       /\ IsDigits(SubSeq(k, Len(k) - 4, Len(k) - 3))
       /\ IsDigits(SubSeq(k, Len(k) - 1, Len(k)))
    THEN << ParseInt(SubSeq(k, 1, Len(k) - 6)),
            ParseNat(SubSeq(k, Len(k) - 4, Len(k) - 3)) - 1,
            ParseNat(SubSeq(k, Len(k) - 1, Len(k))) >>
    ELSE <<>>

\* the grade-change events on the day `day` of the view v = <<month, year>>
ChangesOfDay(v, day) ==
    {j \in DOMAIN log : log[j].ev = "change" /\ log[j].from = v /\ log[j].day = day}

\* C11: a rendered day's dateStr names that day and no other (the day can be
\* read back from it), every time its month is rendered; a grade is shown on a
\* day in view exactly when it is the last one chosen for that very day (or,
\* with no choice made for the day, the one saved for it), never on another.
C11_KeyIdentity ==
    loaded =>
        \A i \in InMonth :
            LET td  == CellAt(i)
                chg == ChangesOfDay(<<viewMonth, viewYear>>, td.day)
            IN  /\ ParseKey(td.dateStr) = <<viewYear, viewMonth, td.day>>
                /\ \A j \in chg :
                      (\A l \in chg : l <= j) =>
                          td.classes = IF log[j].value = "" THEN {}
                                       ELSE {ExpectedClass(log[j].value)}
                /\ (chg = {} /\ td.classes # {}) =>
                      \E k \in DOMAIN SavedGrades :
                          /\ ParseKey(k) = <<viewYear, viewMonth, td.day>>
                          /\ td.classes = {ExpectedClass(SavedGrades[k])}

\* a grade was chosen for a day, the view went to another month and came back,
\* and the day shows the grade while no other day of the month shows one
C11_Witness ==
    /\ loaded
    /\ \E j \in DOMAIN log :
          /\ log[j].ev = "change" /\ log[j].value # ""
          /\ log[j].from = <<viewMonth, viewYear>>
          /\ \E l \in DOMAIN log : l > j /\ log[l].to # log[j].from
          /\ \E i \in InMonth :
                /\ CellAt(i).day = log[j].day
                /\ CellAt(i).classes = {ExpectedClass(log[j].value)}
                /\ \A h \in InMonth \ {i} : CellAt(h).classes = {}

-----------------------------------------------------------------------------
(* Classes of a cell *)

\* the cell the last grade-change event was on, when it is still rendered
LastChanged == {i \in InMonth : CellAt(i).dateStr = LastEvent.key}

\* C12: every rendered in-month cell carries at most one grade class, one of
\* the six, and no other class; right after a grade change the cell carries
\* only the class of that choice (none after a blank choice).
C12_SingleClass ==
    loaded =>
        /\ \A i \in InMonth :
              /\ CellAt(i).classes \subseteq GradeClassNames
              /\ Cardinality(CellAt(i).classes) <= 1
        /\ LastEvent.ev = "change" =>
              \A i \in LastChanged :
                  CellAt(i).classes = IF LastEvent.value = "" THEN {}
                                      ELSE {ExpectedClass(LastEvent.value)}

\* a graded day has just been given another grade
C12_Witness ==
    /\ loaded /\ LastEvent.ev = "change" /\ LastEvent.value # ""
    /\ \E i \in LastChanged :
          /\ Cardinality(CellAt(i).classes) = 1
          /\ \E j \in ChangesOf(LastEvent.key) :
                log[j].value \notin {"", LastEvent.value}

-----------------------------------------------------------------------------
(* Month length and rebuilds *)

\* C13: the number of days laid out for the viewed (month, year) is the
\* proleptic Gregorian month length (February: 29 in leap years, else 28).
C13_MonthLength ==
    (loaded /\ ValidView) =>
        /\ Cardinality(InMonth) = GregorianDays(viewMonth, viewYear)
        /\ \A i \in InMonth : CellAt(i).day <= GregorianDays(viewMonth, viewYear)

\* C14: after buildCalendar the grid is the one that (month, year) and the
\* store determine, with nothing left of what was rendered before, and running
\* buildCalendar once more on it yields the same grid.
C14_RebuildReplaces ==
    (loaded /\ IsRebuild(LastEvent)) =>
        LET built == BuildCalendar(viewMonth, viewYear, store)
        IN  /\ calendarBody = built
            /\ ClearBody(calendarBody) \o built = calendarBody

\* a grade class was put on a cell and the view then moved to another month
C14_Witness ==
    /\ loaded /\ Len(log) >= 3
    /\ LastEvent.ev \in {"prev", "next"} /\ LastEvent.to # LastEvent.from
    /\ log[Len(log) - 1].ev = "change" /\ log[Len(log) - 1].value # ""
    /\ calendarBody # <<>>

-----------------------------------------------------------------------------
(* Values outside the six grades *)

\* C15: a grade-change event whose value is blank or is none of S, A, B, C,
\* D, F clears the grade: the dateStr is not in the store afterwards and the
\* cell has no classification.
C15_InputNormalized ==
    (loaded /\ LastEvent.ev = "change" /\ LastEvent.value \notin Grades) =>
        /\ LastEvent.key \notin DOMAIN store
        /\ \A i \in LastChanged : CellAt(i).classes = {}

\* C16: a day whose stored value is none of S, A, B, C, D, F is rendered with
\* no classification, and no cell ever carries a class outside the six grade
\* classes or two classes at once.
C16_ForeignShownUngraded ==
    loaded =>
        \A i \in InMonth :
            /\ CellAt(i).classes \subseteq GradeClassNames
            /\ Cardinality(CellAt(i).classes) <= 1
            /\ (IsRebuild(LastEvent) /\ getItem(store, CellAt(i).dateStr) \cap Grades = {})
                  => CellAt(i).classes = {}

-----------------------------------------------------------------------------
(* Rows, frame conditions, the view *)

\* C17: buildCalendar renders at least 5 week rows, and a sixth row when the
\* month extends into a sixth week.
C17_AtLeastFiveRows ==
    (loaded /\ ValidView) =>
        /\ Len(calendarBody) >= 5
        /\ (GregorianWeekday(viewMonth, viewYear)
              + GregorianDays(viewMonth, viewYear) > 35) => Len(calendarBody) = 6

\* C18: page load, previous and next clicks (and a reload) leave the store
\* unchanged; a grade-change event on the cell with dateStr d changes at most
\* the store entry for d and that one cell, and nothing else.
C18_Frame ==
    [][ LET e == log'[Len(log')]
        IN  /\ e.ev \in {"load", "prev", "next", "reload"} => store' = store
            /\ e.ev = "change" =>
                  /\ \A k \in (DOMAIN store \cup DOMAIN store') \ {e.key} :
                        getItem(store', k) = getItem(store, k)
                  /\ Len(calendarBody') = Len(calendarBody)
                  /\ \A row \in DOMAIN calendarBody, col \in 1..7 :
                        calendarBody'[row][col] # calendarBody[row][col]
                            => calendarBody[row][col].dateStr = e.key
                  /\ monthYearText' = monthYearText
                  /\ currentDate' = currentDate
      ]_vars

\* a grade has just been changed while the store holds other days' grades and
\* other graded days are in view
C18_Witness ==
    /\ loaded /\ LastEvent.ev = "change"
    /\ \E k \in DOMAIN store : k # LastEvent.key
    /\ \E i \in InMonth : CellAt(i).dateStr # LastEvent.key /\ CellAt(i).classes # {}

\* the heading "<MonthName> <Year>" of the current view
ViewHeading == <<monthNames[viewMonth + 1], " ", NumToString(viewYear)>>

\* C19: the view month is always an integer in 0..11, and after a navigation
\* event the grid and the heading are those of the current view.
C19_ViewAndHeading ==
    /\ viewMonth \in 0..11
    /\ (loaded /\ LastEvent.ev \in {"prev", "next"}) =>
          /\ monthYearText = ViewHeading
          /\ calendarBody = BuildCalendar(viewMonth, viewYear, store)

====
